---- MODULE Spec2Model ----
(***************************************************************************)
(* Arithmetic expression engines of rust-achievement:                      *)
(*   - the two-phase engine (tokenize, to_postfix, evaluate_postfix) of    *)
(*     expression_parsing_calculation/src/expression_parsing_algorithm.rs  *)
(*   - the recursive precedence-climbing evaluator (Tokenizer, Expr) of    *)
(*     expression_parsing_calculation/src/main.rs                          *)
(* An input text is a sequence of one-character strings.                   *)
(***************************************************************************)
EXTENDS Integers, Sequences, FiniteSets, TLC

\* ------------------------------------------------------------------ bounds

\* longest input text drawn from FreeAlphabet
MaxLen == 4

\* largest digit used as an operand of the expression templates
MaxOperand == 3

\* f64 values are tracked exactly (as fractions) while numerator and
\* denominator stay within FinCap; beyond it a value is "approx"
FinCap == 30000

\* ------------------------------------------------------------- characters

DigitChars == <<"0", "1", "2", "3", "4", "5", "6", "7", "8", "9">>

Digits == {DigitChars[i] : i \in 1..10}

DigitVal(c) == CHOOSE i \in 0..9 : DigitChars[i + 1] = c

OperatorChars == {"+", "-", "*", "/", "^"}

\* the characters the free input texts are drawn from: digits, the decimal
\* point, the five operators, both parentheses, the space, and "a", a
\* character neither engine knows
FreeAlphabet == {"0", "2", "3", ".", "+", "-", "*", "/", "^", "(", ")", " ", "a"}

\* ------------------------------------------------------------ f64 values
\* An f64 is modelled as the fraction n/d it stands for (kind "fin", in lowest
\* terms, d > 0), an infinity (kind "inf", n its sign), NaN, or "approx": a
\* value the model does not track (magnitude beyond FinCap, or an irrational
\* power).  Rounding and the sign of zero are not modelled.

Fin(n, d) == [k |-> "fin", n |-> n, d |-> d]

Inf(s) == [k |-> "inf", n |-> s, d |-> 0]

NaN == [k |-> "nan", n |-> 0, d |-> 0]

Approx == [k |-> "approx", n |-> 0, d |-> 0]

NoVal == [k |-> "none", n |-> 0, d |-> 0]

Abs(x) == IF x < 0 THEN -x ELSE x

Sgn(x) == IF x < 0 THEN -1 ELSE IF x = 0 THEN 0 ELSE 1

RECURSIVE Gcd(_, _)
Gcd(a, b) == IF b = 0 THEN a ELSE Gcd(b, a % b)

\* the fraction n/d (d # 0) in lowest terms, or approx beyond FinCap
Norm(n, d) ==
    LET g == Gcd(Abs(n), Abs(d))
        nn == (Sgn(d) * n) \div g
        dd == Abs(d) \div g
    IN  IF Abs(nn) > FinCap \/ dd > FinCap THEN Approx ELSE Fin(nn, dd)

FromInt(i) == Norm(i, 1)

FNeg(x) ==
    CASE x.k = "fin" -> Fin(-x.n, x.d)
      [] x.k = "inf" -> Inf(-x.n)
      [] OTHER -> x

\* a + b  (expression_parsing_algorithm.rs:152)
FAdd(x, y) ==
    CASE x.k = "nan" \/ y.k = "nan" -> NaN
      [] x.k = "approx" \/ y.k = "approx" -> Approx
      [] x.k = "inf" /\ y.k = "inf" -> IF x.n = y.n THEN x ELSE NaN
      [] x.k = "inf" -> x
      [] y.k = "inf" -> y
      [] OTHER -> Norm(x.n * y.d + y.n * x.d, x.d * y.d)

\* a - b  (expression_parsing_algorithm.rs:153)
FSub(x, y) == FAdd(x, FNeg(y))

\* a * b  (expression_parsing_algorithm.rs:154)
FMul(x, y) ==
    CASE x.k = "nan" \/ y.k = "nan" -> NaN
      [] x.k = "approx" \/ y.k = "approx" -> Approx
      [] x.k = "inf" \/ y.k = "inf" ->
            IF Sgn(x.n) * Sgn(y.n) = 0 THEN NaN ELSE Inf(Sgn(x.n) * Sgn(y.n))
      [] OTHER -> Norm(x.n * y.n, x.d * y.d)

\* a / b  (expression_parsing_algorithm.rs:155): IEEE-754 division, so a
\* division by zero is an infinity or NaN, never an error
FDiv(x, y) ==
    CASE x.k = "nan" \/ y.k = "nan" -> NaN
      [] x.k = "approx" \/ y.k = "approx" -> Approx
      [] x.k = "inf" /\ y.k = "inf" -> NaN
      [] x.k = "inf" -> Inf(IF y.n < 0 THEN -x.n ELSE x.n)
      [] y.k = "inf" -> Fin(0, 1)
      [] y.n = 0 -> IF x.n = 0 THEN NaN ELSE Inf(Sgn(x.n))
      [] OTHER -> Norm(x.n * y.d, x.d * y.n)

\* acc * x^e for an integer e >= 0, by repeated multiplication; stops as soon
\* as the product is no longer tracked
RECURSIVE PowAcc(_, _, _)
PowAcc(acc, x, e) ==
    IF e = 0 \/ acc.k # "fin" THEN acc ELSE PowAcc(FMul(acc, x), x, e - 1)

\* x^e for a tracked x and an integer e >= 0
PowNat(x, e) ==
    IF x.n = 0 THEN x
    ELSE IF x.d = 1 /\ Abs(x.n) = 1 THEN Fin(IF e % 2 = 0 THEN 1 ELSE x.n, 1)
    ELSE PowAcc(Fin(1, 1), x, e)

\* a.powf(b)  (expression_parsing_algorithm.rs:156)
FPow(x, y) ==
    CASE y.k = "fin" /\ y.n = 0 -> Fin(1, 1)
      [] x.k = "fin" /\ x.n = 1 /\ x.d = 1 -> Fin(1, 1)
      [] x.k = "nan" \/ y.k = "nan" -> NaN
      [] x.k = "approx" \/ y.k = "approx" -> Approx
      [] y.k = "inf" ->
            IF x.k = "fin" /\ Abs(x.n) = x.d THEN Fin(1, 1)
            ELSE IF (x.k = "inf" \/ Abs(x.n) > x.d) = (y.n > 0)
                 THEN Inf(1) ELSE Fin(0, 1)
      [] x.k = "inf" ->
            IF y.n < 0 THEN Fin(0, 1)
            ELSE IF x.n < 0 /\ y.d = 1 /\ y.n % 2 = 1 THEN Inf(-1) ELSE Inf(1)
      [] y.d = 1 /\ y.n > 0 -> PowNat(x, y.n)
      [] y.d = 1 -> FDiv(Fin(1, 1), PowNat(x, -y.n))
      [] x.n = 0 -> IF y.n > 0 THEN Fin(0, 1) ELSE Inf(1)
      [] x.n < 0 -> NaN
      [] OTHER -> Approx

\* ------------------------------------------------------------------ tokens
\* enum Token { Number(f64), Operator(char), LeftParen, RightParen }

Number(v) == [t |-> "Number", v |-> v, op |-> ""]

Operator(c) == [t |-> "Operator", v |-> NoVal, op |-> c]

LeftParen == [t |-> "LeftParen", v |-> NoVal, op |-> ""]

RightParen == [t |-> "RightParen", v |-> NoVal, op |-> ""]

\* ------------------------------------------------- str::parse::<f64>
\* of a lexeme made of digits and '.' only: it is a float literal iff it has
\* at most one '.' and at least one digit ("1." and ".5" are literals, "." and
\* "1.2.3" are not)

CountDots(s) == Cardinality({i \in 1..Len(s) : s[i] = "."})

\* the value of a digit string, or -1 once it exceeds FinCap
RECURSIVE DigitsVal(_, _)
DigitsVal(ds, acc) ==
    IF ds = <<>> THEN acc
    ELSE IF acc * 10 + DigitVal(Head(ds)) > FinCap THEN -1
    ELSE DigitsVal(Tail(ds), acc * 10 + DigitVal(Head(ds)))

RECURSIVE Pow10(_)
Pow10(k) == IF k = 0 THEN 1 ELSE IF k > 4 THEN FinCap + 1 ELSE 10 * Pow10(k - 1)

ParseF64(s) ==
    LET dots == CountDots(s)
        ds   == SelectSeq(s, LAMBDA c : c # ".")
        dot  == IF dots = 1 THEN CHOOSE i \in 1..Len(s) : s[i] = "." ELSE Len(s)
        n    == DigitsVal(ds, 0)
        sc   == Pow10(Len(s) - dot)
    IN  IF dots > 1 \/ ds = <<>> THEN [ok |-> FALSE, v |-> NoVal]
        ELSE IF n < 0 \/ sc > FinCap THEN [ok |-> TRUE, v |-> Approx]
        ELSE [ok |-> TRUE, v |-> Norm(n, sc)]

\* ---------------------------------------------------------------- tokenize
\* The tokenizer's locals: tokens, num_str, and panic ("" while running).

\* if !num_str.is_empty() { tokens.push(Number(num_str.parse().unwrap())); num_str.clear(); }
FlushNumber(st) ==
    IF st.num_str = <<>> THEN st
    ELSE LET p == ParseF64(st.num_str)
         IN  IF p.ok
             THEN [st EXCEPT !.tokens = Append(@, Number(p.v)), !.num_str = <<>>]
             ELSE [st EXCEPT !.panic = "unwrap on ParseFloatError"]

PushToken(st, tok) ==
    IF st.panic # "" THEN st ELSE [st EXCEPT !.tokens = Append(@, tok)]

\* '(' => tokens.push(Token::LeftParen): the pending num_str is left as it is
TokenizeLeftParen(st) == PushToken(st, LeftParen)

\* one iteration of the loop over expr.chars()
TokenizeChar(st, c) ==
    CASE c \in Digits \/ c = "." -> [st EXCEPT !.num_str = Append(@, c)]
      [] c \in OperatorChars -> PushToken(FlushNumber(st), Operator(c))
      [] c = "(" -> TokenizeLeftParen(st)
      [] c = ")" -> PushToken(FlushNumber(st), RightParen)
      [] c = " " -> FlushNumber(st)
      [] OTHER -> [st EXCEPT !.panic = "Invalid character in expression"]

\* the flush after the loop
TokenizeEnd(st) == FlushNumber(st)

RECURSIVE TokenizeFrom(_, _)
TokenizeFrom(st, cs) ==
    IF st.panic # "" THEN st
    ELSE IF cs = <<>> THEN TokenizeEnd(st)
    ELSE TokenizeFrom(TokenizeChar(st, Head(cs)), Tail(cs))

\* tokenize(expr): [tokens, num_str, panic]
Tokenize(e) == TokenizeFrom([tokens |-> <<>>, num_str |-> <<>>, panic |-> ""], e)

\* -------------------------------------------------------------- to_postfix

\* fn precedence(op: char) -> u8
precedence(op) ==
    CASE op \in {"+", "-"} -> 1
      [] op \in {"*", "/"} -> 2
      [] op = "^" -> 3
      [] OTHER -> 0

\* the comparison the other way round: a weaker operator on the stack is popped
PopsBefore_Reversed(top_op, op) == precedence(top_op) <= precedence(op)

\* the comparison made strict: an operator of equal precedence stays on the stack
PopsBefore_Strict(top_op, op) == precedence(top_op) > precedence(op)

\* the loop condition of the Operator arm: the stack's top operator top_op is
\* popped before op is pushed
PopsBefore(top_op, op) == precedence(top_op) >= precedence(op)

Last(s) == s[Len(s)]

Pop(s) == SubSeq(s, 1, Len(s) - 1)

\* The converter's locals: output and operator_stack.

\* while let Some(Operator(top_op)) = operator_stack.last() { if .. pop to output else break }
RECURSIVE PopOperators(_, _)
PopOperators(st, op) ==
    IF st.operator_stack # <<>> /\ Last(st.operator_stack).t = "Operator"
       /\ PopsBefore(Last(st.operator_stack).op, op)
    THEN PopOperators([output |-> Append(st.output, Last(st.operator_stack)),
                       operator_stack |-> Pop(st.operator_stack)], op)
    ELSE st

\* the RightParen arm keeping the parenthesis it stops at: it goes to the output
RECURSIVE PopToLeftParen_KeepsParen(_)
PopToLeftParen_KeepsParen(st) ==
    IF st.operator_stack = <<>> THEN st
    ELSE IF Last(st.operator_stack).t = "LeftParen"
         THEN [output |-> Append(st.output, Last(st.operator_stack)),
               operator_stack |-> Pop(st.operator_stack)]
         ELSE PopToLeftParen_KeepsParen([output |-> Append(st.output, Last(st.operator_stack)),
                                         operator_stack |-> Pop(st.operator_stack)])

\* Token::RightParen: while let Some(top_token) = operator_stack.pop()
\* { LeftParen => break, _ => output.push(top_token) }; an emptied stack just
\* ends the loop
RECURSIVE PopToLeftParen(_)
PopToLeftParen(st) ==
    IF st.operator_stack = <<>> THEN st
    ELSE IF Last(st.operator_stack).t = "LeftParen"
         THEN [st EXCEPT !.operator_stack = Pop(@)]
         ELSE PopToLeftParen([output |-> Append(st.output, Last(st.operator_stack)),
                              operator_stack |-> Pop(st.operator_stack)])

\* one iteration of the loop over the tokens
ToPostfixToken(st, token) ==
    CASE token.t = "Number" -> [st EXCEPT !.output = Append(@, token)]
      [] token.t = "Operator" ->
            LET p == PopOperators(st, token.op)
            IN  [p EXCEPT !.operator_stack = Append(@, token)]
      [] token.t = "LeftParen" -> [st EXCEPT !.operator_stack = Append(@, token)]
      [] OTHER -> PopToLeftParen(st)

\* while let Some(token) = operator_stack.pop() { output.push(token) }: every
\* entry left on the stack, a LeftParen included, goes to the output
RECURSIVE ToPostfixEnd(_)
ToPostfixEnd(st) ==
    IF st.operator_stack = <<>> THEN st
    ELSE ToPostfixEnd([output |-> Append(st.output, Last(st.operator_stack)),
                       operator_stack |-> Pop(st.operator_stack)])

\* the converter's locals after the loop over ts, entered with st
RECURSIVE ToPostfixLoop(_, _)
ToPostfixLoop(st, ts) ==
    IF ts = <<>> THEN st ELSE ToPostfixLoop(ToPostfixToken(st, Head(ts)), Tail(ts))

ToPostfixFrom(st, ts) == ToPostfixEnd(ToPostfixLoop(st, ts))

\* to_postfix(tokens): the output sequence
ToPostfix(ts) == ToPostfixFrom([output |-> <<>>, operator_stack |-> <<>>], ts).output

\* -------------------------------------------------------- evaluate_postfix

\* match op { '+' => a + b, '-' => a - b, '*' => a * b, '/' => a / b, '^' => a.powf(b) }
ApplyOperator(op, a, b) ==
    CASE op = "+" -> FAdd(a, b)
      [] op = "-" -> FSub(a, b)
      [] op = "*" -> FMul(a, b)
      [] op = "/" -> FDiv(a, b)
      [] OTHER -> FPow(a, b)

\* The evaluator's locals: stack, and panic ("" while running).

\* Token::Operator(op): b = stack.pop().unwrap(); a = stack.pop().unwrap(); push a op b
EvaluateOperator(st, op) ==
    IF Len(st.stack) < 2 THEN [st EXCEPT !.panic = "unwrap on None"]
    ELSE IF op \notin OperatorChars THEN [st EXCEPT !.panic = "Unknown operator"]
    ELSE LET b == st.stack[Len(st.stack)]
             a == st.stack[Len(st.stack) - 1]
         IN  [st EXCEPT !.stack = Append(Pop(Pop(@)), ApplyOperator(op, a, b))]

\* one iteration of the loop over the postfix tokens
EvaluateToken(st, token) ==
    CASE token.t = "Number" -> [st EXCEPT !.stack = Append(@, token.v)]
      [] token.t = "Operator" -> EvaluateOperator(st, token.op)
      [] OTHER -> [st EXCEPT !.panic = "Invalid token in postfix expression"]

\* stack.pop().unwrap(): the top of the stack, whatever lies below it
EvaluateEnd(st) ==
    IF st.stack = <<>> THEN [panic |-> "unwrap on None", value |-> NoVal]
    ELSE [panic |-> "", value |-> Last(st.stack)]

RECURSIVE EvaluateFrom(_, _)
EvaluateFrom(st, ts) ==
    IF st.panic # "" THEN [panic |-> st.panic, value |-> NoVal]
    ELSE IF ts = <<>> THEN EvaluateEnd(st)
    ELSE EvaluateFrom(EvaluateToken(st, Head(ts)), Tail(ts))

\* evaluate_postfix(tokens): [panic, value]
EvaluatePostfix(ts) == EvaluateFrom([stack |-> <<>>, panic |-> ""], ts)

\* expression_parsing_algorithm(expr): [panic, value]
ExpressionParsingAlgorithm(e) ==
    LET tk == Tokenize(e)
    IN  IF tk.panic # "" THEN [panic |-> tk.panic, value |-> NoVal]
        ELSE EvaluatePostfix(ToPostfix(tk.tokens))

\* ======================================================== main.rs: i32
\* Token::compute works on i32.  An overflowing +, -, * or pow panics in a
\* build with overflow checks and wraps in one without; the model keeps the
\* two apart from every other outcome as the result kind "overflow".  A
\* division by zero, MIN / -1 and a negative exponent panic in every build.

MaxI32 == 2147483647

MinI32 == -2147483647 - 1

AddOverflows(a, b) ==
    \/ b > 0 /\ a > MaxI32 - b
    \/ b < 0 /\ a < MinI32 - b

SubOverflows(a, b) ==
    \/ b < 0 /\ a > MaxI32 + b
    \/ b > 0 /\ a < MinI32 + b

\* -|x|, which every i32 has
NegAbs(x) == IF x > 0 THEN -x ELSE x

MulOverflows(a, b) ==
    LET na == NegAbs(a)
        nb == NegAbs(b)
    IN  CASE a = 0 \/ b = 0 \/ a = 1 \/ b = 1 -> FALSE
          [] a = -1 -> b = MinI32
          [] b = -1 -> a = MinI32
          [] na = MinI32 \/ nb = MinI32 -> TRUE
          [] Sgn(a) = Sgn(b) -> -na > MaxI32 \div (-nb)
          [] OTHER -> -na > (MaxI32 \div (-nb))
                             + (IF MaxI32 % (-nb) = -nb - 1 THEN 1 ELSE 0)

\* left / right for right # 0 and no overflow: the quotient truncated toward zero
TruncDiv(a, b) ==
    LET pb == IF b = MinI32 THEN MaxI32 ELSE Abs(b)
        q(x) == Sgn(x) * Sgn(b) * (Abs(x) \div pb)
    IN  IF b = MinI32 THEN (IF a = MinI32 THEN 1 ELSE 0)
        ELSE IF a = MinI32 THEN q(a + pb) - Sgn(b)
        ELSE q(a)

IOk(v) == [kind |-> "Ok", val |-> v, msg |-> ""]

IErr(m) == [kind |-> "Err", val |-> 0, msg |-> m]

IPanic(m) == [kind |-> "panic", val |-> 0, msg |-> m]

IOverflow == [kind |-> "overflow", val |-> 0, msg |-> "arithmetic overflow"]

\* acc * base^e on i32, by repeated multiplication
RECURSIVE IPowAcc(_, _, _)
IPowAcc(acc, base, e) ==
    IF e = 0 THEN IOk(acc)
    ELSE IF MulOverflows(acc, base) THEN IOverflow
    ELSE IPowAcc(acc * base, base, e - 1)

\* left.pow(exp) for exp >= 0
IPow(base, e) ==
    CASE e = 0 -> IOk(1)
      [] base = 0 \/ base = 1 -> IOk(base)
      [] base = -1 -> IOk(IF e % 2 = 0 THEN 1 ELSE -1)
      [] OTHER -> IPowAcc(1, base, e)

\* ------------------------------------------------------- main.rs: Token
\* enum Token { Number(f64), Plus, Minus, Multiply, Divide, Power, LParen, RParen };
\* NoToken is Option::None

ExprToken(t) == [t |-> t, v |-> 0]

NoToken == ExprToken("None")

\* fn is_operator(&self) -> bool
is_operator(token) == token.t \in {"Plus", "Minus", "Multiply", "Divide", "Power"}

\* fn precedence(&self) -> i32
TokenPrecedence(token) ==
    CASE token.t \in {"Plus", "Minus"} -> 1
      [] token.t \in {"Multiply", "Divide"} -> 2
      [] token.t = "Power" -> 3
      [] OTHER -> 0

ASSOC_LEFT == 0

ASSOC_RIGHT == 1

\* every operator taken as left-associative
assoc_AlwaysLeft(token) == ASSOC_LEFT

\* fn assoc(&self) -> i32
assoc(token) == IF token.t = "Power" THEN ASSOC_RIGHT ELSE ASSOC_LEFT

\* fn compute(&self, left: i32, right: i32) -> Option<i32>; Err "Unexpected expr"
\* stands for the None the caller turns into that error
compute(token, left, right) ==
    CASE token.t = "Plus" ->
            IF AddOverflows(left, right) THEN IOverflow ELSE IOk(left + right)
      [] token.t = "Minus" ->
            IF SubOverflows(left, right) THEN IOverflow ELSE IOk(left - right)
      [] token.t = "Multiply" ->
            IF MulOverflows(left, right) THEN IOverflow ELSE IOk(left * right)
      [] token.t = "Divide" ->
            IF right = 0 THEN IPanic("attempt to divide by zero")
            ELSE IF left = MinI32 /\ right = -1
                 THEN IPanic("attempt to divide with overflow")
                 ELSE IOk(TruncDiv(left, right))
      [] token.t = "Power" ->
            IF right < 0 THEN IPanic("unwrap on TryFromIntError")
            ELSE IPow(left, right)
      [] OTHER -> IErr("Unexpected expr")

\* --------------------------------------------------- main.rs: Tokenizer

Whitespace == {" ", "\t", "\n"}

\* char::is_numeric, on the characters of the model
is_numeric(c) == c \in Digits

\* fn clear_whitespace(&mut self): the characters left after it
RECURSIVE clear_whitespace(_)
clear_whitespace(cs) ==
    IF cs # <<>> /\ Head(cs) \in Whitespace THEN clear_whitespace(Tail(cs)) ELSE cs

\* the number of leading numeric characters
RECURSIVE NumericPrefix(_)
NumericPrefix(cs) ==
    IF cs # <<>> /\ is_numeric(Head(cs)) THEN 1 + NumericPrefix(Tail(cs)) ELSE 0

\* number.parse::<f64>() followed, in compute_atom, by `n as i32`: the value of
\* the digits, saturating at i32::MAX
RECURSIVE DigitsAsI32(_, _)
DigitsAsI32(ds, acc) ==
    IF ds = <<>> THEN acc
    ELSE IF acc > (MaxI32 - DigitVal(Head(ds))) \div 10 THEN MaxI32
    ELSE DigitsAsI32(Tail(ds), acc * 10 + DigitVal(Head(ds)))

\* fn scan_number(&mut self) -> Option<Token>: [tok, chars]
scan_number(cs) ==
    LET n == NumericPrefix(cs)
    IN  IF n = 0 THEN [tok |-> NoToken, chars |-> cs]
        ELSE [tok |-> [t |-> "Number", v |-> DigitsAsI32(SubSeq(cs, 1, n), 0)],
              chars |-> SubSeq(cs, n + 1, Len(cs))]

\* fn scan_operator(&mut self) -> Option<Token>: [tok, chars]; the character is
\* consumed whether it is an operator or not
scan_operator(cs) ==
    IF cs = <<>> THEN [tok |-> NoToken, chars |-> cs]
    ELSE [tok |-> CASE Head(cs) = "+" -> ExprToken("Plus")
                    [] Head(cs) = "-" -> ExprToken("Minus")
                    [] Head(cs) = "*" -> ExprToken("Multiply")
                    [] Head(cs) = "/" -> ExprToken("Divide")
                    [] Head(cs) = "^" -> ExprToken("Power")
                    [] Head(cs) = "(" -> ExprToken("LParen")
                    [] Head(cs) = ")" -> ExprToken("RParen")
                    [] OTHER -> NoToken,
          chars |-> Tail(cs)]

\* impl Iterator for Tokenizer: fn next(&mut self) -> Option<Token>: [tok, chars]
TokenizerNext(cs) ==
    LET rest == clear_whitespace(cs)
    IN  IF rest = <<>> THEN [tok |-> NoToken, chars |-> rest]
        ELSE IF is_numeric(Head(rest)) THEN scan_number(rest)
        ELSE scan_operator(rest)

\* -------------------------------------------------------- main.rs: Expr
\* Expr.iter is a Peekable<Tokenizer>: chars are the characters the tokenizer
\* has not consumed, pk is the peeked slot: <<>> when empty, <<tok>> when it
\* holds a peeked item (<<NoToken>>: a peeked None).  The tokenizer is not
\* fused: after a None it goes on from the characters that are left.  steps
\* counts the calls of compute_atom and the iterations of compute_expr's loop
\* that go on to the right operand; the code keeps no such counter.

ExprNew(input) == [chars |-> input, pk |-> <<>>, steps |-> 0]

\* Peekable::peek: [tok, it]
IterPeek(it) ==
    IF it.pk # <<>> THEN [tok |-> it.pk[1], it |-> it]
    ELSE LET r == TokenizerNext(it.chars)
         IN  [tok |-> r.tok, it |-> [it EXCEPT !.chars = r.chars, !.pk = <<r.tok>>]]

\* Peekable::next: [tok, it]
IterNext(it) ==
    IF it.pk # <<>> THEN [tok |-> it.pk[1], it |-> [it EXCEPT !.pk = <<>>]]
    ELSE LET r == TokenizerNext(it.chars)
         IN  [tok |-> r.tok, it |-> [it EXCEPT !.chars = r.chars, !.pk = <<>>]]

RECURSIVE compute_expr(_, _)
RECURSIVE compute_atom(_)
RECURSIVE ComputeLoop(_, _, _)

\* fn compute_atom(&mut self) -> Result<i32>: [res, it]
compute_atom(it) ==
    LET n == IterNext([it EXCEPT !.steps = @ + 1])
    IN  CASE n.tok.t = "None" -> [res |-> IErr("Unexpected end of input"), it |-> n.it]
          [] n.tok.t = "Number" -> [res |-> IOk(n.tok.v), it |-> n.it]
          [] n.tok.t = "LParen" ->
                LET r == compute_expr(n.it, 1)
                    c == IterNext(r.it)
                IN  IF r.res.kind # "Ok" THEN r
                    ELSE IF c.tok.t = "RParen" THEN [res |-> r.res, it |-> c.it]
                    ELSE [res |-> IErr("Expected closing parenthesis"), it |-> c.it]
          [] OTHER -> [res |-> IErr("Unexpected token"), it |-> n.it]

\* the loop of compute_expr, entered with atom_lhs: [res, it]
ComputeLoop(it, atom_lhs, min_prec) ==
    LET p == IterPeek(it)
        token == p.tok
        next_prec == IF assoc(token) = ASSOC_LEFT
                     THEN TokenPrecedence(token) + 1 ELSE TokenPrecedence(token)
    IN  IF token.t = "None" THEN [res |-> IOk(atom_lhs), it |-> p.it]
        ELSE IF ~is_operator(token) \/ TokenPrecedence(token) < min_prec
        THEN [res |-> IOk(atom_lhs), it |-> p.it]
        ELSE LET r == compute_expr(IterNext([p.it EXCEPT !.steps = @ + 1]).it, next_prec)
                 c == compute(token, atom_lhs, r.res.val)
             IN  IF r.res.kind # "Ok" THEN r
                 ELSE IF c.kind # "Ok" THEN [res |-> c, it |-> r.it]
                 ELSE ComputeLoop(r.it, c.val, min_prec)

\* fn compute_expr(&mut self, min_prec: i32) -> Result<i32>: [res, it]
compute_expr(it, min_prec) ==
    LET a == compute_atom(it)
    IN  IF a.res.kind # "Ok" THEN a ELSE ComputeLoop(a.it, a.res.val, min_prec)

\* fn eval(&mut self) -> Result<i32>: [res, it]
eval(it) ==
    LET r == compute_expr(it, 1)
        p == IterPeek(r.it)
    IN  IF r.res.kind # "Ok" THEN r
        ELSE IF p.tok.t # "None" THEN [res |-> IErr("Unexpected token"), it |-> p.it]
        ELSE [res |-> r.res, it |-> p.it]

\* Expr::new(src).eval(): the result
ExprEval(input) == eval(ExprNew(input)).res

\* ------------------------------------------------------------ input texts
\* the texts the specification and the tests name

\* "2^3^2" (spec.md 8: right-associativity)
Ex_RightAssoc == <<"2", "^", "3", "^", "2">>

\* "8-3-2" (spec.md 8: left-associativity)
Ex_LeftAssoc == <<"8", "-", "3", "-", "2">>

\* "3+4*2" (spec.md 8: precedence)
Ex_Prec == <<"3", "+", "4", "*", "2">>

\* "(3+4)*2" (spec.md 8: precedence)
Ex_Paren == <<"(", "3", "+", "4", ")", "*", "2">>

\* "3 + 4 * 2" (spec.md 8: whitespace insensitivity)
Ex_Spaced == <<"3", " ", "+", " ", "4", " ", "*", " ", "2">>

\* "3 + )" (spec.md 8: malformed input)
Ex_BadRParen == <<"3", " ", "+", " ", ")">>

\* "(3+4" (spec.md 8: malformed input)
Ex_Unclosed == <<"(", "3", "+", "4">>

\* "+3" (spec.md 8: malformed input)
Ex_LeadingOp == <<"+", "3">>

\* "3+4)" (an unmatched ')' after a complete sum)
Ex_ExtraRParen == <<"3", "+", "4", ")">>

\* "3 4" (spec.md 7: two residual values)
Ex_TwoNumbers == <<"3", " ", "4">>

\* "2(3" (a '(' right after a digit)
Ex_NumberParen == <<"2", "(", "3">>

\* "1.2.3" (spec.md 4.1: multiple decimal points)
Ex_TwoDots == <<"1", ".", "2", ".", "3">>

\* "1 a 2" (a character outside the alphabet)
Ex_InvalidChar == <<"1", " ", "a", " ", "2">>

\* "2^(1-3)" (spec.md 4.3: a negative exponent)
Ex_NegExponent == <<"2", "^", "(", "1", "-", "3", ")">>

\* "3+2" (tests::test_basic_operations)
Ex_Basic1 == <<"3", "+", "2">>

\* "3*2" (tests::test_basic_operations)
Ex_Basic2 == <<"3", "*", "2">>

\* "6/2" (tests::test_basic_operations)
Ex_Basic3 == <<"6", "/", "2">>

\* "2^3" (tests::test_basic_operations)
Ex_Basic4 == <<"2", "^", "3">>

\* "3 + 4 * 2 / ( 1 - 5 ) ^ 2" (tests::test_complex_expression)
Ex_Complex == <<"3", " ", "+", " ", "4", " ", "*", " ", "2", " ", "/", " ", "(", " ", "1", " ", "-", " ", "5", " ", ")", " ", "^", " ", "2">>

\* "92 + 5 + 5 * 27 - (92 - 12) / 4 + 26" (fn main of both programs)
Ex_Regression == <<"9", "2", " ", "+", " ", "5", " ", "+", " ", "5", " ", "*", " ", "2", "7", " ", "-", " ", "(", "9", "2", " ", "-", " ", "1", "2", ")", " ", "/", " ", "4", " ", "+", " ", "2", "6">>

\* "5 + 5" (main.rs tests::test_compute_expr)
Ex_ComputeExpr == <<"5", " ", "+", " ", "5">>

\* "3 + 4" written with tabs
Ex_Tabbed == <<"3", "\t", "+", "\t", "4">>

\* "3 + 4" written with a newline
Ex_Newline == <<"3", "+", "\n", "4">>

Examples ==
    {Ex_Tabbed, Ex_Newline, Ex_RightAssoc, Ex_LeftAssoc, Ex_Prec, Ex_Paren,
     Ex_Spaced, Ex_BadRParen, Ex_Unclosed, Ex_LeadingOp,
     Ex_ExtraRParen, Ex_TwoNumbers, Ex_NumberParen, Ex_TwoDots,
     Ex_InvalidChar, Ex_NegExponent, Ex_Basic1, Ex_Basic2,
     Ex_Basic3, Ex_Basic4, Ex_Complex, Ex_Regression,
     Ex_ComputeExpr}

\* the digits 0..MaxOperand, as characters
OperandChars == {DigitChars[i + 1] : i \in 0..MaxOperand}

\* a^b^c
PowChain(a, b, c) == <<a, "^", b, "^", c>>

\* a+b*c
SumProduct(a, b, c) == <<a, "+", b, "*", c>>

\* (a+b)*c
ParenSumProduct(a, b, c) == <<"(", a, "+", b, ")", "*", c>>

\* a-b-c
SubChain(a, b, c) == <<a, "-", b, "-", c>>

\* the pairs of operators of one precedence level, all left-associative
LeftAssocPairs == ({"+", "-"} \X {"+", "-"}) \cup ({"*", "/"} \X {"*", "/"})

\* a o1 b o2 c
Chain(a, o1, b, o2, c) == <<a, o1, b, o2, c>>

Templates ==
    UNION {{PowChain(a, b, c), SumProduct(a, b, c), ParenSumProduct(a, b, c),
            SubChain(a, b, c)} \cup {Chain(a, o[1], b, o[2], c) : o \in LeftAssocPairs}
           : a \in OperandChars, b \in OperandChars, c \in OperandChars}

\* every text over FreeAlphabet of at most MaxLen characters
\* the operands of the generated well-formed texts
GrammarAtoms == {<<"0">>, <<"2">>, <<"3">>}

\* one more level of nesting: a o b and ( a ), written without extra parentheses
Grow(S) ==
    S \cup {a \o <<o>> \o b : a \in S, b \in S, o \in OperatorChars}
      \cup {<<"(">> \o a \o <<")">> : a \in S}

\* the well-formed expression texts of two levels of nesting
GrammarTexts == Grow(Grow(GrammarAtoms))

FreeTexts == UNION {[1..n -> FreeAlphabet] : n \in 0..MaxLen}

Inputs == FreeTexts \cup Examples \cup Templates \cup GrammarTexts

\* ============================================= quantitative_trading: signals
\* f64 comparisons of finite values
FLess(x, y) == x.n * y.d < y.n * x.d

FLessEq(x, y) == x.n * y.d <= y.n * x.d

\* the keys SignalAggregator::new inserts
Indicators == {"MACD", "RSI", "BB", "KDJ", "MA_CROSS"}

\* the weights SignalAggregator::new inserts
Weight(indicator) ==
    CASE indicator = "MACD" -> Norm(3, 10)
      [] indicator = "RSI" -> Norm(2, 10)
      [] indicator = "BB" -> Norm(2, 10)
      [] indicator = "KDJ" -> Norm(15, 100)
      [] OTHER -> Norm(15, 100)

SignalStrength(buy, sell) == [buy_strength |-> buy, sell_strength |-> sell]

\* the entry of an indicator that is no key of the signals map
Absent == SignalStrength(NoVal, NoVal)

\* the strengths an indicator reports in the runs checked
StrengthChoices ==
    {SignalStrength(Norm(8, 10), Norm(2, 10)), SignalStrength(Norm(7, 10), Norm(3, 10)),
     SignalStrength(Norm(2, 10), Norm(8, 10))}

\* the thresholds of the runs checked
Thresholds == {Norm(6, 10), Norm(3, 10)}

SignalMaps == [Indicators -> StrengthChoices \cup {Absent}]

\* tests::test_signal_aggregation: MACD (0.8, 0.2), RSI (0.7, 0.3), threshold 0.6
Test_Signals ==
    [i \in Indicators |->
        IF i = "MACD" THEN SignalStrength(Norm(8, 10), Norm(2, 10))
        ELSE IF i = "RSI" THEN SignalStrength(Norm(7, 10), Norm(3, 10))
        ELSE Absent]

Test_Threshold == Norm(6, 10)

\* if let Some(signal) = signals.get(indicator) { total_buy += ..; total_sell += .. }
AggregateIndicator(a, indicator) ==
    IF a.signals[indicator] = Absent THEN a
    ELSE [a EXCEPT
            !.total_buy = FAdd(@, FMul(a.signals[indicator].buy_strength, Weight(indicator))),
            !.total_sell = FAdd(@, FMul(a.signals[indicator].sell_strength, Weight(indicator)))]

\* total > self.threshold.  The totals are f64 sums taken in the HashMap's
\* iteration order: where the exact sum equals the threshold, the rounded sum
\* may lie on either side of it.
Exceeds(total, threshold) ==
    IF total = threshold THEN {TRUE, FALSE} ELSE {FLess(threshold, total)}

\* if total_buy > threshold { Buy } else if total_sell > threshold { Sell } else { Hold }
CompositeSignal(buy, sell) == IF buy THEN "Buy" ELSE IF sell THEN "Sell" ELSE "Hold"

\* ---------------------------------------------------------- _generate_signal
\* the longest free price series
MaxPrices == 3

\* the largest window
MaxWindow == 3

\* the prices of the free series
PriceChoices == {10, 20, 30}

\* tests::test_generate_signal_golden_cross (and _short_window_less_than_long_window)
Test_Prices == <<10, 20, 15, 30, 25>>

\* tests::test_generate_signal_death_cross
Test_DeathCrossPrices == <<30, 20, 15, 10, 25>>

\* tests::test_generate_signal_no_cross
Test_NoCrossPrices == <<10, 20, 15, 20, 25>>

PriceInputs ==
    {Test_Prices, Test_DeathCrossPrices, Test_NoCrossPrices}
        \cup UNION {[1..n -> PriceChoices] : n \in 0..MaxPrices}

RECURSIVE SumPrices(_, _, _)
SumPrices(prices, from, to) ==
    IF from > to THEN 0 ELSE prices[from] + SumPrices(prices, from + 1, to)

\* the value of the i-th call of next on a SimpleMovingAverage of the given
\* period: the mean of the last `period` prices, of all i while fewer were seen
SmaNext(prices, i, period) ==
    IF i < period THEN Norm(SumPrices(prices, 1, i), i)
    ELSE Norm(SumPrices(prices, i - period + 1, i), period)

\* the length test and the two crossing tests
CrossSignal(short_values, long_values) ==
    IF Len(short_values) < 2 \/ Len(long_values) < 2 THEN "Hold"
    ELSE LET last_short == short_values[Len(short_values)]
             prev_short == short_values[Len(short_values) - 1]
             last_long  == long_values[Len(long_values)]
             prev_long  == long_values[Len(long_values) - 1]
         IN  IF FLess(prev_short, prev_long) /\ FLessEq(last_long, last_short) THEN "Buy"
             ELSE IF FLess(prev_long, prev_short) /\ FLessEq(last_short, last_long) THEN "Sell"
             ELSE "Hold"

\* ============================================================ state machine
\* One call expression_parsing_algorithm(expr), a character or a token at a
\* time, followed by Expr::new(expr).eval() on the same text.  A caller may
\* then call expression_parsing_algorithm again, keeping what earlier calls
\* returned.

VARIABLES
    expr,            \* the input text
    pc,              \* "tokenize", "to_postfix", "evaluate_postfix", "returned", "panicked"
    pos,             \* characters / tokens the running loop has consumed
    tokens,          \* tokenize: tokens
    num_str,         \* tokenize: num_str
    output,          \* to_postfix: output
    operator_stack,  \* to_postfix: operator_stack
    stack,           \* evaluate_postfix: stack
    result,          \* the f64 returned by expression_parsing_algorithm, NoVal before
    panic,           \* the panic that ended expression_parsing_algorithm, "" if none
    eval_result,     \* the Result of Expr::eval, kind "none" before
    history,         \* the caller's record of the calls that returned: [text, result]
    agg,             \* SignalAggregator::generate_composite_signal: self, signals, locals
    sma              \* _generate_signal: arguments and locals

vars == <<expr, pc, pos, tokens, num_str, output, operator_stack, stack, result,
          panic, eval_result, history, agg, sma>>

NoResult == [kind |-> "none", val |-> 0, msg |-> ""]

\* no call of generate_composite_signal
AggIdle ==
    [pc |-> "idle", threshold |-> NoVal, signals |-> <<>>, pending |-> {},
     total_buy |-> NoVal, total_sell |-> NoVal, signal |-> "none"]

\* no call of _generate_signal
SmaIdle ==
    [pc |-> "idle", prices |-> <<>>, short_window |-> 0, long_window |-> 0,
     short_values |-> <<>>, long_values |-> <<>>, signal |-> "none"]

\* a run of the expression programs on one text
InitExpression ==
    /\ expr \in Inputs
    /\ pc = "tokenize"
    /\ pos = 0
    /\ tokens = <<>>
    /\ num_str = <<>>
    /\ output = <<>>
    /\ operator_stack = <<>>
    /\ stack = <<>>
    /\ result = NoVal
    /\ panic = ""
    /\ eval_result = NoResult
    /\ history = <<>>
    /\ agg = AggIdle
    /\ sma = SmaIdle

\* no call of expression_parsing_algorithm
ExpressionIdle ==
    /\ expr = <<>>
    /\ pc = "idle"
    /\ pos = 0
    /\ tokens = <<>>
    /\ num_str = <<>>
    /\ output = <<>>
    /\ operator_stack = <<>>
    /\ stack = <<>>
    /\ result = NoVal
    /\ panic = ""
    /\ eval_result = NoResult
    /\ history = <<>>

\* SignalAggregator::new(threshold).generate_composite_signal(&signals), entered
InitAggregator ==
    /\ ExpressionIdle
    /\ sma = SmaIdle
    /\ \E th \in Thresholds, sg \in SignalMaps :
          agg = [pc |-> "loop", threshold |-> th, signals |-> sg, pending |-> Indicators,
                 total_buy |-> FromInt(0), total_sell |-> FromInt(0), signal |-> "none"]

\* _generate_signal(&prices, short_window, long_window), entered
InitGenerateSignal ==
    /\ ExpressionIdle
    /\ agg = AggIdle
    /\ \E ps \in PriceInputs, sw \in 0..MaxWindow, lw \in 0..MaxWindow :
          sma = [pc |-> "new", prices |-> ps, short_window |-> sw, long_window |-> lw,
                 short_values |-> <<>>, long_values |-> <<>>, signal |-> "none"]

Init == InitExpression \/ InitAggregator \/ InitGenerateSignal

\* tokenize: one iteration of `for c in expr.chars()`
TokenizeStep ==
    /\ pc = "tokenize"
    /\ pos < Len(expr)
    /\ LET st == TokenizeChar([tokens |-> tokens, num_str |-> num_str, panic |-> ""],
                              expr[pos + 1])
       IN  /\ tokens' = st.tokens
           /\ num_str' = st.num_str
           /\ panic' = st.panic
           /\ pc' = IF st.panic # "" THEN "panicked" ELSE pc
           /\ pos' = pos + 1
    /\ UNCHANGED <<agg, sma, history, expr, output, operator_stack, stack, result, eval_result>>

\* tokenize: the flush after the loop and the return; to_postfix(tokens) starts
TokenizeReturn ==
    /\ pc = "tokenize"
    /\ pos = Len(expr)
    /\ LET st == TokenizeEnd([tokens |-> tokens, num_str |-> num_str, panic |-> ""])
       IN  /\ tokens' = st.tokens
           /\ num_str' = st.num_str
           /\ panic' = st.panic
           /\ pc' = IF st.panic # "" THEN "panicked" ELSE "to_postfix"
    /\ pos' = 0
    /\ UNCHANGED <<agg, sma, history, expr, output, operator_stack, stack, result, eval_result>>

\* to_postfix: one iteration of `for token in tokens`
ToPostfixStep ==
    /\ pc = "to_postfix"
    /\ pos < Len(tokens)
    /\ LET st == ToPostfixToken([output |-> output, operator_stack |-> operator_stack],
                                tokens[pos + 1])
       IN  /\ output' = st.output
           /\ operator_stack' = st.operator_stack
    /\ pos' = pos + 1
    /\ UNCHANGED <<agg, sma, history, expr, pc, tokens, num_str, stack, result, panic, eval_result>>

\* to_postfix: the loop emptying operator_stack and the return;
\* evaluate_postfix(postfix) starts
ToPostfixReturn ==
    /\ pc = "to_postfix"
    /\ pos = Len(tokens)
    /\ LET st == ToPostfixEnd([output |-> output, operator_stack |-> operator_stack])
       IN  /\ output' = st.output
           /\ operator_stack' = st.operator_stack
    /\ pc' = "evaluate_postfix"
    /\ pos' = 0
    /\ UNCHANGED <<agg, sma, history, expr, tokens, num_str, stack, result, panic, eval_result>>

\* evaluate_postfix: one iteration of `for token in tokens`
EvaluateStep ==
    /\ pc = "evaluate_postfix"
    /\ pos < Len(output)
    /\ LET st == EvaluateToken([stack |-> stack, panic |-> ""], output[pos + 1])
       IN  /\ stack' = st.stack
           /\ panic' = st.panic
           /\ pc' = IF st.panic # "" THEN "panicked" ELSE pc
    /\ pos' = pos + 1
    /\ UNCHANGED <<agg, sma, history, expr, tokens, num_str, output, operator_stack, result, eval_result>>

\* evaluate_postfix: stack.pop().unwrap() and the return to the caller
EvaluateReturn ==
    /\ pc = "evaluate_postfix"
    /\ pos = Len(output)
    /\ LET r == EvaluateEnd([stack |-> stack, panic |-> ""])
       IN  /\ panic' = r.panic
           /\ result' = r.value
           /\ pc' = IF r.panic # "" THEN "panicked" ELSE "returned"
           /\ stack' = IF r.panic # "" THEN stack ELSE Pop(stack)
    /\ UNCHANGED <<agg, sma, history, expr, pos, tokens, num_str, output, operator_stack, eval_result>>

\* main.rs: Expr::new(expr).eval()
ExprMain ==
    /\ pc \in {"returned", "panicked"}
    /\ eval_result = NoResult
    /\ eval_result' = ExprEval(expr)
    /\ UNCHANGED <<agg, sma, history, expr, pc, pos, tokens, num_str, output, operator_stack, stack,
                   result, panic>>

\* the caller's texts when it calls more than once
CallTexts == {Ex_Basic1, Ex_Prec, Ex_RightAssoc, Ex_TwoNumbers, Ex_ExtraRParen, Ex_LeadingOp}

\* the further calls a caller makes
MaxCalls == 2

\* locals that outlive the call: the token vector is not renewed
NewCallLocals_StaleTokens(old) ==
    [tokens |-> old.tokens, num_str |-> <<>>, output |-> <<>>, operator_stack |-> <<>>,
     stack |-> <<>>]

\* the locals every call starts with, whatever the call before left in its own:
\* Vec::new() and String::new() in tokenize, to_postfix and evaluate_postfix
NewCallLocals(old) ==
    [tokens |-> <<>>, num_str |-> <<>>, output |-> <<>>, operator_stack |-> <<>>,
     stack |-> <<>>]

\* the caller, after a call that returned, calls expression_parsing_algorithm
\* on another text (a panic ends the program instead)
CallAgain ==
    /\ pc = "returned"
    /\ expr \in CallTexts
    /\ Len(history) < MaxCalls
    /\ history' = Append(history, [text |-> expr, result |-> result])
    /\ expr' \in CallTexts
    /\ LET fresh == NewCallLocals([tokens |-> tokens, num_str |-> num_str,
                                   output |-> output, operator_stack |-> operator_stack,
                                   stack |-> stack])
       IN  /\ tokens' = fresh.tokens
           /\ num_str' = fresh.num_str
           /\ output' = fresh.output
           /\ operator_stack' = fresh.operator_stack
           /\ stack' = fresh.stack
    /\ pc' = "tokenize"
    /\ pos' = 0
    /\ result' = NoVal
    /\ panic' = ""
    /\ eval_result' = NoResult
    /\ UNCHANGED <<agg, sma>>

\* generate_composite_signal: one iteration of `for (indicator, weight) in
\* &self.indicators`; a HashMap yields its entries in no fixed order
CompositeSignalStep ==
    /\ agg.pc = "loop"
    /\ \E indicator \in agg.pending :
          agg' = AggregateIndicator([agg EXCEPT !.pending = @ \ {indicator}], indicator)
    /\ UNCHANGED <<sma, history, expr, pc, pos, tokens, num_str, output, operator_stack,
                   stack, result, panic, eval_result>>

\* generate_composite_signal: the comparisons after the loop and the return
CompositeSignalReturn ==
    /\ agg.pc = "loop"
    /\ agg.pending = {}
    /\ \E buy \in Exceeds(agg.total_buy, agg.threshold),
          sell \in Exceeds(agg.total_sell, agg.threshold) :
          agg' = [agg EXCEPT !.pc = "done", !.signal = CompositeSignal(buy, sell)]
    /\ UNCHANGED <<sma, history, expr, pc, pos, tokens, num_str, output, operator_stack,
                   stack, result, panic, eval_result>>

\* _generate_signal: SimpleMovingAverage::new(short_window).unwrap() and
\* SimpleMovingAverage::new(long_window).unwrap(); new(0) is an Err
GenerateSignalNew ==
    /\ sma.pc = "new"
    /\ sma' = [sma EXCEPT !.pc = IF sma.short_window = 0 \/ sma.long_window = 0
                                 THEN "panicked" ELSE "loop"]
    /\ UNCHANGED <<agg, history, expr, pc, pos, tokens, num_str, output, operator_stack,
                   stack, result, panic, eval_result>>

\* _generate_signal: one iteration of `for price in prices`
GenerateSignalStep ==
    /\ sma.pc = "loop"
    /\ Len(sma.short_values) < Len(sma.prices)
    /\ LET i == Len(sma.short_values) + 1
       IN  sma' = [sma EXCEPT
                     !.short_values = Append(@, SmaNext(sma.prices, i, sma.short_window)),
                     !.long_values = Append(@, SmaNext(sma.prices, i, sma.long_window))]
    /\ UNCHANGED <<agg, history, expr, pc, pos, tokens, num_str, output, operator_stack,
                   stack, result, panic, eval_result>>

\* _generate_signal: the length test, the crossing tests and the return
GenerateSignalReturn ==
    /\ sma.pc = "loop"
    /\ Len(sma.short_values) = Len(sma.prices)
    /\ sma' = [sma EXCEPT !.pc = "done",
                          !.signal = CrossSignal(sma.short_values, sma.long_values)]
    /\ UNCHANGED <<agg, history, expr, pc, pos, tokens, num_str, output, operator_stack,
                   stack, result, panic, eval_result>>

Next ==
    \/ TokenizeStep
    \/ TokenizeReturn
    \/ ToPostfixStep
    \/ ToPostfixReturn
    \/ EvaluateStep
    \/ EvaluateReturn
    \/ ExprMain
    \/ CallAgain
    \/ CompositeSignalStep
    \/ CompositeSignalReturn
    \/ GenerateSignalNew
    \/ GenerateSignalStep
    \/ GenerateSignalReturn

Spec == Init /\ [][Next]_vars

\* ================================================================== claims

Terminated == pc \in {"returned", "panicked"}

IsTemplate(e, shape) ==
    /\ Len(e) = Len(shape)
    /\ \A i \in 1..Len(e) : IF shape[i] = "d" THEN e[i] \in Digits ELSE e[i] = shape[i]

\* C1: exponentiation is right-associative in the two-phase engine: for all
\* digit operands a, b, c the call on "a^b^c" returns a^(b^c).
C1_PowRightAssociative ==
    (Terminated /\ IsTemplate(expr, <<"d", "^", "d", "^", "d">>)) =>
        /\ pc = "returned"
        /\ result = FPow(FromInt(DigitVal(expr[1])),
                         FPow(FromInt(DigitVal(expr[3])), FromInt(DigitVal(expr[5]))))

\* C2: on the malformed inputs "3 + )", "(3+4" and "+3" the call ends in an
\* error result: it neither returns a number nor panics.
C2_MalformedGivesError ==
    expr \in {Ex_BadRParen, Ex_Unclosed, Ex_LeadingOp} => ~Terminated

\* a RightParen of ts that to_postfix meets with no LeftParen on operator_stack
HasUnmatchedRightParen(ts) ==
    \E j \in 1..Len(ts) :
        /\ ts[j].t = "RightParen"
        /\ LET st == ToPostfixLoop([output |-> <<>>, operator_stack |-> <<>>],
                                   SubSeq(ts, 1, j - 1))
           IN  \A i \in 1..Len(st.operator_stack) : st.operator_stack[i].t # "LeftParen"

\* C3: a RightParen for which the operator stack empties without a LeftParen
\* makes the conversion fail: no numeric result is produced for such tokens.
C3_UnmatchedRightParenFails ==
    ~(pc = "returned" /\ HasUnmatchedRightParen(tokens))

\* C4: a LeftParen left on the operator stack at the end of the input makes the
\* conversion fail; a LeftParen token is never appended to the postfix output.
C4_NoLeftParenInOutput ==
    \A i \in 1..Len(output) : output[i].t # "LeftParen"

\* C5: evaluate_postfix returns a value only when exactly one value remains on
\* the operand stack: once it has returned (popping the value), the stack is empty.
C5_ExactlyOneResidualValue ==
    pc = "returned" => stack = <<>>

\* C6: an Operator token met with fewer than two values on the operand stack
\* yields an error; evaluate_postfix does not panic on it.
C6_OperatorUnderflowNoPanic ==
    ~(/\ pc = "panicked"
      /\ panic = "unwrap on None"
      /\ pos >= 1
      /\ pos <= Len(output)
      /\ output[pos].t = "Operator")

KnownChars == Digits \cup {"."} \cup OperatorChars \cup {"(", ")"} \cup Whitespace

\* C7: a text holding a character outside the alphabet makes both engines
\* fail with an error: the two-phase engine does not panic, and Expr::eval
\* does not return Ok with the value of the text before the character.
C7_InvalidCharacterIsError ==
    (\E i \in 1..Len(expr) : expr[i] \notin KnownChars) =>
        /\ pc # "panicked"
        /\ pc # "returned"
        /\ eval_result.kind # "Ok"

\* C8: a numeric lexeme that is no float literal yields an InvalidNumber
\* error wherever the pending lexeme is finalized; tokenize never panics on it.
C8_InvalidNumberNoPanic ==
    ~(pc = "panicked" /\ panic = "unwrap on ParseFloatError")

\* C9: a numeric lexeme pending when '(' is read is finalized before the
\* LeftParen is emitted: right after a '(' was read, num_str is empty.
C9_LeftParenClosesNumber ==
    (pc = "tokenize" /\ pos >= 1 /\ expr[pos] = "(") => num_str = <<>>

\* C10: precedence and parentheses: for all digit operands a, b, c, "a+b*c"
\* evaluates to a+(b*c) and "(a+b)*c" to (a+b)*c, in the two-phase engine and
\* in the recursive evaluator.
C10_Precedence ==
    /\ IsTemplate(expr, <<"d", "+", "d", "*", "d">>) =>
          LET v == DigitVal(expr[1]) + DigitVal(expr[3]) * DigitVal(expr[5])
          IN  /\ Terminated => (pc = "returned" /\ result = Fin(v, 1))
              /\ eval_result # NoResult => eval_result = IOk(v)
    /\ IsTemplate(expr, <<"(", "d", "+", "d", ")", "*", "d">>) =>
          LET v == (DigitVal(expr[2]) + DigitVal(expr[4])) * DigitVal(expr[7])
          IN  /\ Terminated => (pc = "returned" /\ result = Fin(v, 1))
              /\ eval_result # NoResult => eval_result = IOk(v)

\* "(3+4)*2" has been evaluated to 14 by both engines
C10_Witness ==
    /\ expr = Ex_Paren
    /\ pc = "returned"
    /\ result = Fin(14, 1)
    /\ eval_result = IOk(14)

\* C11: chains of equal-precedence left-associative operators group left to
\* right in the two-phase engine, the first pushed operand being the left one:
\* for all digit operands a, b, c and operators o1, o2 of one level, "a o1 b o2 c"
\* returns (a o1 b) o2 c; "a-b-c" returns the integer (a-b)-c, "8-3-2" returns 3.
C11_LeftAssociative ==
    /\ (Terminated /\ Len(expr) = 5 /\ <<expr[2], expr[4]>> \in LeftAssocPairs
        /\ expr[1] \in Digits /\ expr[3] \in Digits /\ expr[5] \in Digits) =>
          /\ pc = "returned"
          /\ result = ApplyOperator(expr[4],
                                    ApplyOperator(expr[2], Fin(DigitVal(expr[1]), 1),
                                                  Fin(DigitVal(expr[3]), 1)),
                                    Fin(DigitVal(expr[5]), 1))
    /\ (Terminated /\ IsTemplate(expr, <<"d", "-", "d", "-", "d">>)) =>
          /\ pc = "returned"
          /\ result = Fin((DigitVal(expr[1]) - DigitVal(expr[3])) - DigitVal(expr[5]), 1)
    /\ (Terminated /\ expr = Ex_LeftAssoc) => result = Fin(3, 1)

\* "8-3-2" has been evaluated to 3
C11_Witness ==
    /\ expr = Ex_LeftAssoc
    /\ pc = "returned"
    /\ result = Fin(3, 1)

\* ------------------------------------------------------ reference evaluator
\* The yardstick of the equivalence claims: a lexer and a recursive-descent
\* evaluator of the usual grammar,
\*   sum ::= product (("+" | "-") product)*      grouped left to right
\*   product ::= power (("*" | "/") power)*      grouped left to right
\*   power ::= atom ("^" power)?                 grouped right to left
\*   atom ::= Number | "(" sum ")"
\* over the same f64 values.
RefFail == [ok |-> FALSE, v |-> NoVal, rest |-> <<>>]

RECURSIVE RefNumberLen(_)
RefNumberLen(cs) ==
    IF cs # <<>> /\ Head(cs) \in Digits \cup {"."} THEN 1 + RefNumberLen(Tail(cs)) ELSE 0

RECURSIVE RefLex(_)
RefLex(cs) ==
    IF cs = <<>> THEN [ok |-> TRUE, ts |-> <<>>]
    ELSE IF Head(cs) \in Whitespace THEN RefLex(Tail(cs))
    ELSE IF Head(cs) \in Digits \cup {"."} THEN
        LET n == RefNumberLen(cs)
            p == ParseF64(SubSeq(cs, 1, n))
            r == RefLex(SubSeq(cs, n + 1, Len(cs)))
        IN  IF p.ok /\ r.ok THEN [ok |-> TRUE, ts |-> <<Number(p.v)>> \o r.ts]
            ELSE [ok |-> FALSE, ts |-> <<>>]
    ELSE IF Head(cs) \in OperatorChars \cup {"(", ")"} THEN
        LET r == RefLex(Tail(cs))
            t == IF Head(cs) = "(" THEN LeftParen
                 ELSE IF Head(cs) = ")" THEN RightParen ELSE Operator(Head(cs))
        IN  IF r.ok THEN [ok |-> TRUE, ts |-> <<t>> \o r.ts] ELSE [ok |-> FALSE, ts |-> <<>>]
    ELSE [ok |-> FALSE, ts |-> <<>>]

RefStartsWith(ts, ops) == ts # <<>> /\ Head(ts).t = "Operator" /\ Head(ts).op \in ops

RefApply(op, a, b) ==
    IF op = "+" THEN FAdd(a, b)
    ELSE IF op = "-" THEN FSub(a, b)
    ELSE IF op = "*" THEN FMul(a, b)
    ELSE IF op = "/" THEN FDiv(a, b)
    ELSE FPow(a, b)

RECURSIVE RefSum(_), RefSumTail(_, _), RefProduct(_), RefProductTail(_, _), RefPower(_), RefAtom(_)
RefAtom(ts) ==
    IF ts = <<>> THEN RefFail
    ELSE IF Head(ts).t = "Number" THEN [ok |-> TRUE, v |-> Head(ts).v, rest |-> Tail(ts)]
    ELSE IF Head(ts) = LeftParen THEN
        LET r == RefSum(Tail(ts))
        IN  IF r.ok /\ r.rest # <<>> /\ Head(r.rest) = RightParen
            THEN [ok |-> TRUE, v |-> r.v, rest |-> Tail(r.rest)]
            ELSE RefFail
    ELSE RefFail

RefPower(ts) ==
    LET a == RefAtom(ts)
    IN  IF a.ok /\ RefStartsWith(a.rest, {"^"}) THEN
            LET e == RefPower(Tail(a.rest))
            IN  IF e.ok THEN [ok |-> TRUE, v |-> RefApply("^", a.v, e.v), rest |-> e.rest]
                ELSE RefFail
        ELSE a

RefProductTail(left, ts) ==
    IF RefStartsWith(ts, {"*", "/"}) THEN
        LET r == RefPower(Tail(ts))
        IN  IF r.ok THEN RefProductTail(RefApply(Head(ts).op, left, r.v), r.rest) ELSE RefFail
    ELSE [ok |-> TRUE, v |-> left, rest |-> ts]

RefProduct(ts) ==
    LET a == RefPower(ts) IN IF a.ok THEN RefProductTail(a.v, a.rest) ELSE RefFail

RefSumTail(left, ts) ==
    IF RefStartsWith(ts, {"+", "-"}) THEN
        LET r == RefProduct(Tail(ts))
        IN  IF r.ok THEN RefSumTail(RefApply(Head(ts).op, left, r.v), r.rest) ELSE RefFail
    ELSE [ok |-> TRUE, v |-> left, rest |-> ts]

RefSum(ts) ==
    LET a == RefProduct(ts) IN IF a.ok THEN RefSumTail(a.v, a.rest) ELSE RefFail

\* a token sequence is syntactically valid when the grammar derives all of it
RefValidTokens(ts) == LET r == RefSum(ts) IN r.ok /\ r.rest = <<>>

\* a text is syntactically valid when it lexes and its tokens are valid
RefValidText(e) == RefLex(e).ok /\ RefValidTokens(RefLex(e).ts)

RefValue(e) == RefSum(RefLex(e).ts).v

\* the characters of number literals, + - * /, parentheses and the blank
ArithmeticChars == Digits \cup {".", "+", "-", "*", "/", "(", ")", " "}

\* C12: for every syntactically valid text over number literals, + - * / and
\* parentheses, blanks allowed between them (up to the bounds), expression_parsing_algorithm returns the value
\* of the reference evaluator; "3+2", "3*2", "6/2", "2^3" return 5, 6, 3, 8 and
\* "3 + 4 * 2 / ( 1 - 5 ) ^ 2" returns 3.5.
C12_MatchesReference ==
    /\ (Terminated /\ RefValidText(expr) /\ (\A i \in 1..Len(expr) : expr[i] \in ArithmeticChars)
        /\ RefValue(expr).k # "approx") =>
          (pc = "returned" /\ result = RefValue(expr))
    /\ (Terminated /\ expr = Ex_Basic1) => (pc = "returned" /\ result = Fin(5, 1))
    /\ (Terminated /\ expr = Ex_Basic2) => (pc = "returned" /\ result = Fin(6, 1))
    /\ (Terminated /\ expr = Ex_Basic3) => (pc = "returned" /\ result = Fin(3, 1))
    /\ (Terminated /\ expr = Ex_Basic4) => (pc = "returned" /\ result = Fin(8, 1))
    /\ (Terminated /\ expr = Ex_Complex) => (pc = "returned" /\ result = Fin(7, 2))

\* a valid text of mixed levels, "2+3*2-3", has been evaluated to 5
C12_Witness ==
    /\ expr = <<"2", "+", "3", "*", "2", "-", "3">>
    /\ RefValidText(expr)
    /\ pc = "returned"
    /\ result = Fin(5, 1)

\* C13 as stated: "92 + 5 + 5 * 27 - (92 - 12) / 4 + 26" evaluated with the
\* engine's entry point yields 238.5.
C13_Regression_AsStated ==
    (Terminated /\ expr = Ex_Regression) => (pc = "returned" /\ result = Fin(477, 2))

\* C13: "92 + 5 + 5 * 27 - (92 - 12) / 4 + 26" yields 238 with the entry point
\* of the two-phase engine (238.0) and with Expr::eval (Ok(238)).
C13_Regression ==
    /\ (Terminated /\ expr = Ex_Regression) => (pc = "returned" /\ result = Fin(238, 1))
    /\ (eval_result # NoResult /\ expr = Ex_Regression) => eval_result = IOk(238)

\* both mains have evaluated the regression text
C13_Witness ==
    /\ expr = Ex_Regression
    /\ pc = "returned"
    /\ result = Fin(238, 1)
    /\ eval_result = IOk(238)

\* the text without its whitespace characters
StripWhitespace(e) == SelectSeq(e, LAMBDA c : c \notin Whitespace)

\* every whitespace run of the text lies between two lexemes: none splits a
\* run of number characters
WhitespaceBetweenLexemes(e) ==
    \A i \in 1..Len(e) : \A j \in (i + 2)..Len(e) :
        (e[i] \in Digits \cup {"."} /\ e[j] \in Digits \cup {"."})
            => \E k \in (i + 1)..(j - 1) : e[k] \notin Whitespace

\* C14: inserting whitespace (space, tab, newline) between the lexemes of an
\* expression does not change the outcome of tokenizing and evaluating it: a
\* text with whitespace between its lexemes ends as the text without it does,
\* in the two-phase engine and in Expr::eval; "3 + 4 * 2" gives what "3+4*2" gives.
C14_WhitespaceInsensitive ==
    WhitespaceBetweenLexemes(expr) =>
        /\ Terminated =>
              LET bare == ExpressionParsingAlgorithm(StripWhitespace(expr))
              IN  /\ (pc = "panicked") = (bare.panic # "")
                  /\ panic = bare.panic
                  /\ result = bare.value
        /\ eval_result # NoResult => eval_result = ExprEval(StripWhitespace(expr))

\* the number of tokens of one kind among the first n of ts
CountKind(ts, n, kind) == Cardinality({i \in 1..n : ts[i].t = kind})

\* the text tokenizes to a syntactically valid infix token sequence
ValidInfix(e) == Tokenize(e).panic = "" /\ RefValidTokens(Tokenize(e).tokens)

\* C15: for every syntactically valid infix token sequence, the output of
\* to_postfix holds no parenthesis token, and evaluate_postfix never pops an
\* empty stack: after every non-empty prefix of the postfix tokens the stack
\* holds (numbers seen - operators seen) >= 1 values, exactly one at the end,
\* and the call returns that value.
C15_WellFormedPostfix ==
    (ValidInfix(expr) /\ pc # "tokenize") =>
        /\ pc # "panicked"
        /\ pc \in {"evaluate_postfix", "returned"} =>
              \A i \in 1..Len(output) : output[i].t \in {"Number", "Operator"}
        /\ pc = "evaluate_postfix" =>
              /\ Len(stack) = CountKind(output, pos, "Number") - CountKind(output, pos, "Operator")
              /\ pos >= 1 => Len(stack) >= 1
              /\ pos = Len(output) => Len(stack) = 1
        /\ pc = "returned" => (stack = <<>> /\ result # NoVal)

\* "(3+4)*2": the five postfix tokens are read and one value is on the stack
C15_Witness ==
    /\ expr = Ex_Paren
    /\ ValidInfix(expr)
    /\ pc = "evaluate_postfix"
    /\ pos = 5
    /\ pos = Len(output)
    /\ stack = <<Fin(14, 1)>>

\* the characters of integer literals, the five operators and parentheses
IntegerChars == Digits \cup OperatorChars \cup {"(", ")"}

\* C16: Expr::eval can stand in for the two-phase engine: for every input over
\* integer literals, + - * / ^ and parentheses, both return the same numeric
\* value or both fail (an error or a panic).
C16_ExprEvalEquivalent ==
    (Terminated /\ eval_result # NoResult /\ \A i \in 1..Len(expr) : expr[i] \in IntegerChars) =>
        \/ pc = "returned" /\ eval_result.kind = "Ok" /\ result = Fin(eval_result.val, 1)
        \/ pc = "panicked" /\ eval_result.kind # "Ok"

\* C17: a division by exactly zero follows one policy in evaluate_postfix's '/'
\* and in Token::compute's Divide: for every digit d, "d/0" ends in an explicit
\* DivisionByZero error in both, neither returning a value nor aborting.
C17_DivisionByZeroIsError ==
    IsTemplate(expr, <<"d", "/", "0">>) =>
        /\ Terminated => (pc # "returned" /\ pc # "panicked")
        /\ eval_result # NoResult => eval_result.kind = "Err"

\* C18: the result depends on the input text only: a call on a text returns what
\* every earlier call on the same text returned, also when calls on other texts
\* lie between them, because each call starts with fresh buffers and stacks.
C18_ResultDependsOnTextOnly ==
    \A i \in 1..Len(history) :
        /\ (Terminated /\ history[i].text = expr) =>
              (pc = "returned" /\ result = history[i].result)
        /\ \A j \in 1..Len(history) :
              history[i].text = history[j].text => history[i].result = history[j].result

\* "3+2" returned 5, "3 4" was evaluated next, and "3+2" has returned 5 again
C18_Witness ==
    /\ Len(history) = 2
    /\ history[1].text = Ex_Basic1
    /\ history[2].text = Ex_TwoNumbers
    /\ expr = Ex_Basic1
    /\ pc = "returned"
    /\ result = Fin(5, 1)
    /\ history[1].result = result

\* C19: generate_composite_signal returns Buy when the weighted buy strength
\* exceeds the threshold, an absent indicator adding nothing; with threshold 0.6
\* and only MACD (buy 0.8, sell 0.2) and RSI (buy 0.7, sell 0.3) present it
\* returns Buy, as tests::test_signal_aggregation asserts.
C19_CompositeBuy ==
    agg.pc = "done" =>
        /\ FLess(agg.threshold, agg.total_buy) => agg.signal = "Buy"
        /\ (agg.signals = Test_Signals /\ agg.threshold = Test_Threshold) => agg.signal = "Buy"

\* C20: _generate_signal returns Buy on a golden cross (previous short SMA
\* below previous long SMA, last short SMA at or above last long SMA), Sell on
\* a death cross and Hold otherwise; for the prices 10, 20, 15, 30, 25 with
\* short window 2 and long window 3 it returns Buy, as
\* tests::test_generate_signal_golden_cross asserts.
C20_GoldenCross ==
    sma.pc = "done" =>
        /\ (Len(sma.prices) >= 2
            /\ FLess(SmaNext(sma.prices, Len(sma.prices) - 1, sma.short_window),
                     SmaNext(sma.prices, Len(sma.prices) - 1, sma.long_window))
            /\ FLessEq(SmaNext(sma.prices, Len(sma.prices), sma.long_window),
                       SmaNext(sma.prices, Len(sma.prices), sma.short_window)))
              => sma.signal = "Buy"
        /\ (sma.prices = Test_Prices /\ sma.short_window = 2 /\ sma.long_window = 3)
              => sma.signal = "Buy"

\* the Token of an operator character
OperatorToken(c) == scan_operator(<<c>>).tok

\* x to the power e for naturals, in plain integers
RECURSIVE NatPow(_, _)
NatPow(x, e) == IF e = 0 THEN 1 ELSE x * NatPow(x, e - 1)

\* C21: Expr::compute_expr parses the right operand of a left-associative
\* operator with minimum precedence prec+1 and that of ^ with prec: for all
\* digit operands "a-b-c" evaluates (a-b)-c, every chain "a o1 b o2 c" of one
\* left-associative level evaluates (a o1 b) o2 c, "a^b^c" evaluates a^(b^c),
\* and compute_expr(0) on "5 + 5" returns 10.
C21_ExprTieBreak ==
    /\ (eval_result # NoResult /\ IsTemplate(expr, <<"d", "-", "d", "-", "d">>)) =>
          eval_result = IOk((DigitVal(expr[1]) - DigitVal(expr[3])) - DigitVal(expr[5]))
    /\ (eval_result # NoResult /\ Len(expr) = 5 /\ <<expr[2], expr[4]>> \in LeftAssocPairs
        /\ expr[1] \in Digits /\ expr[3] \in Digits /\ expr[5] \in Digits) =>
          LET first == compute(OperatorToken(expr[2]), DigitVal(expr[1]), DigitVal(expr[3]))
          IN  eval_result = IF first.kind # "Ok" THEN first
                            ELSE compute(OperatorToken(expr[4]), first.val, DigitVal(expr[5]))
    /\ (eval_result # NoResult /\ IsTemplate(expr, <<"d", "^", "d", "^", "d">>)) =>
          eval_result = IPow(DigitVal(expr[1]), NatPow(DigitVal(expr[3]), DigitVal(expr[5])))
    /\ (eval_result # NoResult /\ expr = Ex_ComputeExpr) =>
          (eval_result = IOk(10) /\ compute_expr(ExprNew(expr), 0).res = IOk(10))

\* Expr::eval has evaluated "2^3^2" to 2^(3^2) = 512
C21_Witness ==
    /\ expr = Ex_RightAssoc
    /\ eval_result = IOk(512)

\* C22: ^ accepts a negative exponent in every evaluator: "2^(1-3)", whose
\* exponent is -2, ends in a value or an error result and never aborts, in
\* evaluate_postfix and in Token::compute alike.
C22_NegativeExponentNoAbort ==
    expr = Ex_NegExponent =>
        /\ Terminated => pc = "returned"
        /\ eval_result # NoResult => eval_result.kind \in {"Ok", "Err"}

\* the position of the topmost LeftParen of an operator stack, 0 if it has none
NearestLeftParen(os) ==
    IF \E i \in 1..Len(os) : os[i].t = "LeftParen"
    THEN CHOOSE i \in 1..Len(os) :
            os[i].t = "LeftParen" /\ \A j \in (i + 1)..Len(os) : os[j].t # "LeftParen"
    ELSE 0

\* within every segment of the operator stack the precedences strictly increase
\* from bottom to top, so no four operators lie next to each other
SegmentsIncrease(os) ==
    /\ \A i \in 2..Len(os) :
          (os[i - 1].t = "Operator" /\ os[i].t = "Operator")
              => precedence(os[i - 1].op) < precedence(os[i].op)
    /\ \A i \in 4..Len(os) : \E j \in (i - 3)..i : os[j].t # "Operator"

\* an operator token leaves the stack up to the nearest LeftParen as it was and
\* ends on top of it
OperatorKeepsParen ==
    (pc = "to_postfix" /\ pos < Len(tokens) /\ tokens[pos + 1].t = "Operator") =>
        LET k == NearestLeftParen(operator_stack)
        IN  /\ Len(operator_stack') > k
            /\ SubSeq(operator_stack', 1, k) = SubSeq(operator_stack, 1, k)
            /\ operator_stack'[Len(operator_stack')] = tokens[pos + 1]

\* C23: after every token to_postfix has processed, the operators of each
\* segment of operator_stack (between the bottom and the LeftParen entries)
\* have strictly increasing precedences from bottom to top, at most three of
\* them, and an incoming operator pops nothing below the nearest LeftParen.
C23_OperatorStackInvariant ==
    /\ [](SegmentsIncrease(operator_stack))
    /\ [][OperatorKeepsParen]_vars

\* "2+3*2^3": ^ was just pushed and the stack holds + * ^
C23_Witness ==
    /\ expr = <<"2", "+", "3", "*", "2", "^", "3">>
    /\ pc = "to_postfix"
    /\ operator_stack = <<Operator("+"), Operator("*"), Operator("^")>>
    /\ tokens[pos] = Operator("^")

\* every RightParen of the sequence closes an earlier LeftParen and every
\* LeftParen is closed
ParenBalanced(ts) ==
    /\ \A n \in 1..Len(ts) : CountKind(ts, n, "RightParen") <= CountKind(ts, n, "LeftParen")
    /\ CountKind(ts, Len(ts), "RightParen") = CountKind(ts, Len(ts), "LeftParen")

\* the Number tokens of a sequence, in its order
NumbersOf(ts) == SelectSeq(ts, LAMBDA t : t.t = "Number")

\* how often the operator c occurs in a sequence
CountOperator(ts, c) == Cardinality({i \in 1..Len(ts) : ts[i] = Operator(c)})

\* to_postfix has returned: output is final
PostfixDone == pc = "evaluate_postfix" \/ (Terminated /\ Tokenize(expr).panic = "")

\* C24: for every parenthesis-balanced token sequence, the output of to_postfix
\* holds the Number tokens in the order of the input, and each Number and each
\* Operator token of the input exactly once: its length is the input's length
\* minus the number of parenthesis tokens.
C24_NumbersKeepOrder ==
    (PostfixDone /\ ParenBalanced(tokens)) =>
        /\ NumbersOf(output) = NumbersOf(tokens)
        /\ \A c \in OperatorChars : CountOperator(output, c) = CountOperator(tokens, c)
        /\ \A i \in 1..Len(output) : output[i].t \in {"Number", "Operator"}
        /\ Len(output) = Len(tokens) - CountKind(tokens, Len(tokens), "LeftParen")
                                     - CountKind(tokens, Len(tokens), "RightParen")

\* "(3+4)*2": seven tokens went in, 3 4 + 2 * came out
C24_Witness ==
    /\ expr = Ex_Paren
    /\ pc = "evaluate_postfix"
    /\ ParenBalanced(tokens)
    /\ Len(tokens) = 7
    /\ output = <<Number(Fin(3, 1)), Number(Fin(4, 1)), Operator("+"),
                  Number(Fin(2, 1)), Operator("*")>>

\* the texts Tokenizer::next can be called on: what is left of the input
Suffixes(e) == {SubSeq(e, i, Len(e)) : i \in 1..(Len(e) + 1)}

\* C25: Expr::eval terminates on every finite input: every Tokenizer::next on
\* non-empty remaining input consumes at least one character, and the
\* recursion reaches Ok or Err after at most as many steps (calls of
\* compute_atom and iterations of compute_expr's loop) as the input has
\* characters.
C25_ExprEvalTerminates ==
    eval_result # NoResult =>
        /\ \A s \in Suffixes(expr) : s # <<>> => Len(TokenizerNext(s).chars) < Len(s)
        /\ eval_result.kind \in {"Ok", "Err"}
        /\ eval(ExprNew(expr)).it.steps <= Len(expr)

====
